---- MODULE Spec2Model ----
(***************************************************************************)
(* EXTI HAL driver of the STM32H7RS (stm32h7rsxx_hal_exti.c): the line     *)
(* configuration functions, the callback registration, the interrupt       *)
(* dispatch and the pending / software-trigger functions, over a model of  *)
(* the EXTI register file and of the SBS EXTICR selector words.            *)
(*                                                                         *)
(* A 32-bit register value is the set of its bit positions that are 1      *)
(* (a subset of 0..31), so bit 31 needs no 32-bit integer.                 *)
(***************************************************************************)
EXTENDS Integers, Sequences, FiniteSets, TLC

\* ---------------------------------------------------------------- bounds
\* Callback functions the callers can register.
NumCallbacks == 2
\* Interrupts that preempt the configuration calls of one behaviour.
MaxPreempt == 1

\* ------------------------------------------------- 32-bit words as bit sets
RECURSIVE BitsFrom(_, _)
BitsFrom(n, i) == IF n = 0 THEN {}
                  ELSE (IF n % 2 = 1 THEN {i} ELSE {}) \cup BitsFrom(n \div 2, i + 1)
\* The bits of a non-negative integer below 2^31.
W(n) == BitsFrom(n, 0)

RECURSIVE Val(_)
\* The integer of a bit set.
Val(S) == IF S = {} THEN 0
          ELSE LET b == CHOOSE x \in S : TRUE IN 2^b + Val(S \ {b})

\* x << s on 32 bits: bits shifted out of the word are lost.
Shl(S, s) == {b + s : b \in {x \in S : x + s <= 31}}
\* x >> s.
Shr(S, s) == {b - s : b \in {x \in S : x >= s}}
\* The bits of a & b.
And(a, b) == W(a) \cap W(b)

\* ------------------------------------------------- constants of the headers
HAL_OK == 0
HAL_ERROR == 1
NULL == 0

EXTI_PROPERTY_SHIFT == 24
EXTI_DIRECT == 1 * 2^EXTI_PROPERTY_SHIFT
EXTI_CONFIG == 2 * 2^EXTI_PROPERTY_SHIFT
EXTI_GPIO == 4 * 2^EXTI_PROPERTY_SHIFT + EXTI_CONFIG
EXTI_EVENT_PRESENCE_SHIFT == 28
EXTI_EVENT == 1 * 2^EXTI_EVENT_PRESENCE_SHIFT
EXTI_REG_SHIFT == 16
EXTI_REG1 == 0 * 2^EXTI_REG_SHIFT
EXTI_REG2 == 1 * 2^EXTI_REG_SHIFT
EXTI_REG_MASK == EXTI_REG1 + EXTI_REG2
EXTI_PIN_MASK == 31

EXTI_MODE_NONE == 0
EXTI_MODE_INTERRUPT == 1
EXTI_MODE_EVENT == 2
EXTI_MODE_INTERRUPT_EVENT == EXTI_MODE_INTERRUPT + EXTI_MODE_EVENT
EXTI_TRIGGER_NONE == 0
EXTI_TRIGGER_RISING == 1
EXTI_TRIGGER_FALLING == 2
EXTI_TRIGGER_RISING_FALLING == EXTI_TRIGGER_RISING + EXTI_TRIGGER_FALLING

\* The 4-bit port-selector field of EXTI0 and the position of EXTI1's field.
SBS_EXTICR1_PC_EXTI0 == 15
SBS_EXTICR1_PC_EXTI1_Pos == 4

HAL_EXTI_COMMON_CB_ID == 0

\* Strides, in 32-bit words, between the replicated register groups.
EXTI_MODE_OFFSET == 4
EXTI_CONFIG_OFFSET == 8

\* Word offsets of the first bank's registers in EXTI_TypeDef.
RTSR1 == 0
FTSR1 == 1
SWIER1 == 2
IMR1 == 32
EMR1 == 33
PR1 == 34

\* Lines of the device: two GPIO lines packed in the same selector word, a
\* configurable line with a fixed source, a direct line of the second bank
\* (not configurable, no event mode).
EXTI_LINE_0 == EXTI_GPIO + EXTI_EVENT + EXTI_REG1 + 0
EXTI_LINE_1 == EXTI_GPIO + EXTI_EVENT + EXTI_REG1 + 1
EXTI_LINE_16 == EXTI_CONFIG + EXTI_EVENT + EXTI_REG1 + 16
EXTI_LINE_33 == EXTI_DIRECT + EXTI_REG2 + 1

Lines == {EXTI_LINE_0, EXTI_LINE_1, EXTI_LINE_16, EXTI_LINE_33}

\* ------------------------------------------------------------ register file
Banks == {0, 1}
ExtiRegs == UNION {{RTSR1 + EXTI_CONFIG_OFFSET * k, FTSR1 + EXTI_CONFIG_OFFSET * k,
                    SWIER1 + EXTI_CONFIG_OFFSET * k, IMR1 + EXTI_MODE_OFFSET * k,
                    EMR1 + EXTI_MODE_OFFSET * k, PR1 + EXTI_MODE_OFFSET * k} : k \in Banks}
ExticrIdx == 0..3

\* A register: <<"EXTI", word offset>> or <<"EXTICR", index>>.
ExtiReg(a) == <<"EXTI", a>>
ExticrReg(i) == <<"EXTICR", i>>

IsPR(r) == r[1] = "EXTI" /\ \E k \in Banks : r[2] = PR1 + EXTI_MODE_OFFSET * k
IsSWIER(r) == r[1] = "EXTI" /\ \E k \in Banks : r[2] = SWIER1 + EXTI_CONFIG_OFFSET * k
\* The pending register of the bank a software-trigger register belongs to.
PROfSWIER(a) == PR1 + EXTI_MODE_OFFSET * ((a - SWIER1) \div EXTI_CONFIG_OFFSET)

\* A load: the software-trigger register always reads 0.
Load(m, r) == IF r[1] = "EXTICR" THEN m.EXTICR[r[2]]
              ELSE IF IsSWIER(r) THEN {}
              ELSE m.EXTI[r[2]]

\* A store as the hardware takes it: the pending register is write-1-to-clear,
\* a 1 written to the software-trigger register latches the line's pending
\* flag, every other register keeps the value written.
Store(m, r, v) ==
    IF r[1] = "EXTICR" THEN [m EXCEPT !.EXTICR[r[2]] = v]
    ELSE IF IsPR(r) THEN [m EXCEPT !.EXTI[r[2]] = @ \ v]
    ELSE IF IsSWIER(r) THEN [m EXCEPT !.EXTI[PROfSWIER(r[2])] = @ \cup v]
    ELSE [m EXCEPT !.EXTI[r[2]] = v]

Config(l, m, t, g) == [Line |-> l, Mode |-> m, Trigger |-> t, GPIOSel |-> g]

\* Inputs of the callers.
Modes == {EXTI_MODE_NONE, EXTI_MODE_INTERRUPT, EXTI_MODE_EVENT, EXTI_MODE_INTERRUPT_EVENT}
Triggers == {EXTI_TRIGGER_NONE, EXTI_TRIGGER_RISING, EXTI_TRIGGER_FALLING, EXTI_TRIGGER_RISING_FALLING}
\* Port A, port C, and a value one bit wider than the selector field.
GPIOSels == {0, 2, 16}
Configs == {Config(l, m, t, g) : l \in Lines, m \in Modes, t \in Triggers, g \in GPIOSels}
\* What a caller's descriptor holds before HAL_EXTI_GetConfigLine fills it.
StaleConfig == Config(EXTI_LINE_16, EXTI_MODE_INTERRUPT_EVENT, EXTI_TRIGGER_RISING_FALLING, 2)

\* ------------------------------------------------------ addressing helpers
\* The fields of a line identifier, as the functions compute them:
\*   offset = (Line & EXTI_REG_MASK) >> EXTI_REG_SHIFT
\*   linepos = Line & EXTI_PIN_MASK
\*   maskline = 1uL << linepos
\* and the tests (Line & EXTI_CONFIG) != 0, (Line & EXTI_GPIO) == EXTI_GPIO,
\* (Line & EXTI_EVENT) == EXTI_EVENT.
Decode(line) ==
    [offset |-> Val(Shr(And(line, EXTI_REG_MASK), EXTI_REG_SHIFT)),
     linepos |-> Val(And(line, EXTI_PIN_MASK)),
     maskline |-> Shl(W(1), Val(And(line, EXTI_PIN_MASK))),
     config |-> And(line, EXTI_CONFIG) # {},
     gpio |-> And(line, EXTI_GPIO) = W(EXTI_GPIO),
     event |-> And(line, EXTI_EVENT) = W(EXTI_EVENT)]
\* Decoded once per line of the device.
Decoded == [l \in Lines |-> Decode(l)]

LineOffset(line) == Decoded[line].offset
LinePos(line) == Decoded[line].linepos
MaskLine(line) == Decoded[line].maskline
IsConfigLine(line) == Decoded[line].config
IsGpioLine(line) == Decoded[line].gpio
IsEventLine(line) == Decoded[line].event

RTSR(line) == ExtiReg(RTSR1 + EXTI_CONFIG_OFFSET * LineOffset(line))
FTSR(line) == ExtiReg(FTSR1 + EXTI_CONFIG_OFFSET * LineOffset(line))
SWIER(line) == ExtiReg(SWIER1 + EXTI_CONFIG_OFFSET * LineOffset(line))
IMR(line) == ExtiReg(IMR1 + EXTI_MODE_OFFSET * LineOffset(line))
EMR(line) == ExtiReg(EMR1 + EXTI_MODE_OFFSET * LineOffset(line))
PR(line) == ExtiReg(PR1 + EXTI_MODE_OFFSET * LineOffset(line))
\* SBS->EXTICR[linepos >> 2]
EXTICRof(line) == ExticrReg(LinePos(line) \div 4)
\* Mutant: the selector fields taken to be two bits wide.
SelShift_TwoBits(line) == 2 * (LinePos(line) % 4)
\* SBS_EXTICR1_PC_EXTI1_Pos * (linepos & 0x03)
SelShift(line) == SBS_EXTICR1_PC_EXTI1_Pos * (LinePos(line) % 4)

\* ------------------------------------------------- read-modify-write steps
\* One step "regval = *reg; regval &= ~clr; regval |= set; *reg = regval".
RMW(reg, clr, set) == [reg |-> reg, clr |-> clr, set |-> set]
\* Mutant: the else branch forgotten, the line's bit is never cleared.
MaskOrSet_NeverClears(reg, flag, maskline) ==
    IF flag THEN RMW(reg, {}, maskline) ELSE RMW(reg, {}, {})
\* "if (flag) regval |= maskline; else regval &= ~maskline;"
MaskOrSet(reg, flag, maskline) ==
    IF flag THEN RMW(reg, {}, maskline) ELSE RMW(reg, maskline, {})
NewVal(old, st) == (old \ st.clr) \cup st.set

\* Mutant: the triggers programmed without the test for a configurable line.
SetConfigSteps_TriggersAlways(c) ==
    LET maskline == MaskLine(c.Line)
    IN << MaskOrSet(RTSR(c.Line), And(c.Trigger, EXTI_TRIGGER_RISING) # {}, maskline),
          MaskOrSet(FTSR(c.Line), And(c.Trigger, EXTI_TRIGGER_FALLING) # {}, maskline),
          MaskOrSet(IMR(c.Line), And(c.Mode, EXTI_MODE_INTERRUPT) # {}, maskline),
          MaskOrSet(EMR(c.Line), And(c.Mode, EXTI_MODE_EVENT) # {}, maskline) >>

\* The stores of HAL_EXTI_SetConfigLine for descriptor c, in program order.
SetConfigSteps(c) ==
    LET maskline == MaskLine(c.Line)
        trig == IF IsConfigLine(c.Line)
                THEN << MaskOrSet(RTSR(c.Line), And(c.Trigger, EXTI_TRIGGER_RISING) # {}, maskline),
                        MaskOrSet(FTSR(c.Line), And(c.Trigger, EXTI_TRIGGER_FALLING) # {}, maskline) >>
                     \o (IF IsGpioLine(c.Line)
                         THEN << RMW(EXTICRof(c.Line),
                                     Shl(W(SBS_EXTICR1_PC_EXTI0), SelShift(c.Line)),
                                     Shl(W(c.GPIOSel), SelShift(c.Line))) >>
                         ELSE << >>)
                ELSE << >>
    IN trig \o << MaskOrSet(IMR(c.Line), And(c.Mode, EXTI_MODE_INTERRUPT) # {}, maskline),
                  MaskOrSet(EMR(c.Line), And(c.Mode, EXTI_MODE_EVENT) # {}, maskline) >>

\* Mutant: the port selector of a GPIO line left as it is.
ClearConfigSteps_KeepsSelector(line) ==
    LET maskline == MaskLine(line)
    IN << RMW(IMR(line), maskline, {}), RMW(EMR(line), maskline, {}) >>
       \o (IF IsConfigLine(line)
           THEN << RMW(RTSR(line), maskline, {}), RMW(FTSR(line), maskline, {}) >>
           ELSE << >>)

\* The stores of HAL_EXTI_ClearConfigLine for a line, in program order.
ClearConfigSteps(line) ==
    LET maskline == MaskLine(line)
    IN << RMW(IMR(line), maskline, {}), RMW(EMR(line), maskline, {}) >>
       \o (IF IsConfigLine(line)
           THEN << RMW(RTSR(line), maskline, {}), RMW(FTSR(line), maskline, {}) >>
                \o (IF IsGpioLine(line)
                    THEN << RMW(EXTICRof(line),
                                Shl(W(SBS_EXTICR1_PC_EXTI0), SelShift(line)), {}) >>
                    ELSE << >>)
           ELSE << >>)

\* The two step lists, computed once per descriptor and per line.
SetConfigStepsOf == [c \in Configs |-> SetConfigSteps(c)]
ClearConfigStepsOf == [l \in Lines |-> ClearConfigSteps(l)]

RECURSIVE RunSteps(_, _)
\* The steps run to completion without interruption.
RunSteps(m, steps) ==
    IF steps = << >> THEN m
    ELSE LET st == Head(steps)
         IN RunSteps(Store(m, st.reg, NewVal(Load(m, st.reg), st)), Tail(steps))

StepRegs(steps) == {steps[i].reg : i \in DOMAIN steps}

\* ------------------------------------------------------ the API functions
\* A pointer to a descriptor is << >> (NULL) or << descriptor >>.
NullCfg == << >>
Ptr(d) == << d >>

\* The result of a call: status, registers, handles, the descriptor behind
\* pExtiConfig after the call, and the registers the call stored to.
Result(ret, m, hs, cfg, wr) == [ret |-> ret, mem |-> m, handles |-> hs, cfg |-> cfg, written |-> wr]

SetConfigLine(m, hs, hexti, pExtiConfig) ==
    IF hexti = NULL \/ pExtiConfig = NullCfg
    THEN Result(HAL_ERROR, m, hs, pExtiConfig, {})
    ELSE LET c == pExtiConfig[1]
             steps == SetConfigStepsOf[c]
         IN Result(HAL_OK, RunSteps(m, steps), [hs EXCEPT ![hexti].Line = c.Line],
                   pExtiConfig, StepRegs(steps))

\* The descriptor HAL_EXTI_GetConfigLine reads back for a line.
ReadConfig(m, line) ==
    LET maskline == MaskLine(line)
        mode1 == IF Load(m, IMR(line)) \cap maskline # {} THEN EXTI_MODE_INTERRUPT ELSE EXTI_MODE_NONE
        mode == IF Load(m, EMR(line)) \cap maskline # {}
                THEN Val(W(mode1) \cup W(EXTI_MODE_EVENT)) ELSE mode1
        trig1 == IF Load(m, RTSR(line)) \cap maskline # {} THEN EXTI_TRIGGER_RISING ELSE EXTI_TRIGGER_NONE
        trig == IF Load(m, FTSR(line)) \cap maskline # {}
                THEN Val(W(trig1) \cup W(EXTI_TRIGGER_FALLING)) ELSE trig1
        sel == Val(Shr(Load(m, EXTICRof(line)), SelShift(line)) \cap W(SBS_EXTICR1_PC_EXTI0))
    IN IF IsConfigLine(line)
       THEN Config(line, mode, trig, IF IsGpioLine(line) THEN sel ELSE 0)
       ELSE Config(line, mode, EXTI_TRIGGER_NONE, 0)

GetConfigLine(m, hs, hexti, pExtiConfig) ==
    IF hexti = NULL \/ pExtiConfig = NullCfg
    THEN Result(HAL_ERROR, m, hs, pExtiConfig, {})
    ELSE Result(HAL_OK, m, hs, Ptr(ReadConfig(m, hs[hexti].Line)), {})

\* Mutant: the NULL check returns the wrong status.
ClearConfigLine_NullIsOk(m, hs, hexti) ==
    IF hexti = NULL
    THEN Result(HAL_OK, m, hs, NullCfg, {})
    ELSE LET steps == ClearConfigStepsOf[hs[hexti].Line]
         IN Result(HAL_OK, RunSteps(m, steps), hs, NullCfg, StepRegs(steps))

ClearConfigLine(m, hs, hexti) ==
    IF hexti = NULL
    THEN Result(HAL_ERROR, m, hs, NullCfg, {})
    ELSE LET steps == ClearConfigStepsOf[hs[hexti].Line]
         IN Result(HAL_OK, RunSteps(m, steps), hs, NullCfg, StepRegs(steps))

GetHandle(m, hs, hexti, ExtiLine) ==
    IF hexti = NULL
    THEN Result(HAL_ERROR, m, hs, NullCfg, {})
    ELSE Result(HAL_OK, m, [hs EXCEPT ![hexti].Line = ExtiLine], NullCfg, {})


\* Mutant: the reference stored before the role is looked at.
RegisterCallback_StoresAnyRole(m, hs, hexti, CallbackID, pPendingCbfn) ==
    Result(IF CallbackID = HAL_EXTI_COMMON_CB_ID THEN HAL_OK ELSE HAL_ERROR,
           m, [hs EXCEPT ![hexti].PendingCallback = pPendingCbfn], NullCfg, {})

RegisterCallback(m, hs, hexti, CallbackID, pPendingCbfn) ==
    IF CallbackID = HAL_EXTI_COMMON_CB_ID
    THEN Result(HAL_OK, m, [hs EXCEPT ![hexti].PendingCallback = pPendingCbfn], NullCfg, {})
    ELSE Result(HAL_ERROR, m, hs, NullCfg, {})

\* Mutant: the pending register tested without the line's mask.
IRQPending_WholeRegister(m, line) == Load(m, PR(line))
\* regval = (*regaddr & maskline) of HAL_EXTI_IRQHandler.
IRQPending(m, line) == Load(m, PR(line)) \cap MaskLine(line)

\* Mutant: the callback called before the pending bit is cleared.
IRQHandlerBody_CallFirst == << "CallCallback", "ClearPending" >>
\* The statements HAL_EXTI_IRQHandler runs when regval != 0, in program order.
IRQHandlerBody == << "ClearPending", "CallCallback" >>

\* Mutant: the masked value returned without the shift.
GetPendingValue_Unshifted(m, line) == Val(Load(m, PR(line)) \cap MaskLine(line))
\* The value HAL_EXTI_GetPending returns: (*regaddr & maskline) >> linepos.
GetPendingValue(m, line) == Val(Shr(Load(m, PR(line)) \cap MaskLine(line), LinePos(line)))

GetPending(m, hs, hexti) ==
    Result(GetPendingValue(m, hs[hexti].Line), m, hs, NullCfg, {})

ClearPending(m, hs, hexti) ==
    LET line == hs[hexti].Line
    IN Result(HAL_OK, Store(m, PR(line), MaskLine(line)), hs, NullCfg, {PR(line)})

GenerateSWI(m, hs, hexti) ==
    LET line == hs[hexti].Line
    IN Result(HAL_OK, Store(m, SWIER(line), MaskLine(line)), hs, NullCfg, {SWIER(line)})

\* ----------------------------------------------------------------- state
VARIABLES
    EXTI,      \* the EXTI registers: word offset -> value
    EXTICR,    \* SBS->EXTICR[0..3]
    handles,   \* the callers' EXTI_HandleTypeDef objects
    last,      \* the last API call: its arguments, status and output
    irq,       \* the position of HAL_EXTI_IRQHandler
    task       \* the position of a configuration call run store by store

vars == << EXTI, EXTICR, handles, last, irq, task >>

Mem == [EXTI |-> EXTI, EXTICR |-> EXTICR]
\* The handle object the caller passes (NULL is 0).
Handles == {1}
Callbacks == 1..NumCallbacks
\* The common role and a role the driver does not define.
CallbackIDs == {HAL_EXTI_COMMON_CB_ID, 1}

Call(op, hexti, arg, r) ==
    [op |-> op, hexti |-> hexti, arg |-> arg, ret |-> r.ret, out |-> r.cfg, written |-> r.written]
NoCall == [op |-> "none", hexti |-> NULL, arg |-> << >>, ret |-> HAL_OK, out |-> NullCfg, written |-> {}]

\* pc: 0 outside the handler, else the statement of IRQHandlerBody to run next.
\* incb: the callback is running. taken: the pending bit was found set.
\* calls, ran: the callbacks invoked by this dispatch. cleared: the handler has
\* written the pending register. fresh: the line's flag was latched again since.
IrqIdle == [pc |-> 0, hexti |-> NULL, incb |-> FALSE, taken |-> FALSE, calls |-> 0,
            ran |-> NULL, cleared |-> FALSE, fresh |-> FALSE]
\* pc: 0 between calls, else the store of steps to do next. loaded: regval holds
\* the register of that store. preempts: interrupts taken so far. torn: an
\* interrupt stored to a register between the call's load and store of it.
\* want: per line, the descriptor of the last configuration call on it.
TaskIdle == [pc |-> 0, steps |-> << >>, regval |-> {}, loaded |-> FALSE, preempts |-> 0,
             torn |-> FALSE, want |-> [l \in Lines |-> NullCfg]]

\* The registers after reset.
ResetMem == [EXTI |-> [a \in ExtiRegs |-> {}], EXTICR |-> [i \in ExticrIdx |-> {}]]

\* Register contents left by earlier configuration of the lines: none, every
\* line fully enabled on port P, and a mix.
FullOn(l) == Config(l, IF IsEventLine(l) THEN EXTI_MODE_INTERRUPT_EVENT ELSE EXTI_MODE_INTERRUPT,
                    EXTI_TRIGGER_RISING_FALLING, 15)
PriorConfigs ==
    { << >>,
      << FullOn(EXTI_LINE_0), FullOn(EXTI_LINE_1), FullOn(EXTI_LINE_16), FullOn(EXTI_LINE_33) >>,
      << Config(EXTI_LINE_0, EXTI_MODE_INTERRUPT, EXTI_TRIGGER_RISING, 2),
         Config(EXTI_LINE_1, EXTI_MODE_EVENT, EXTI_TRIGGER_FALLING, 5),
         Config(EXTI_LINE_16, EXTI_MODE_INTERRUPT, EXTI_TRIGGER_FALLING, 0) >> }

RECURSIVE Configured(_, _)
Configured(m, cs) ==
    IF cs = << >> THEN m ELSE Configured(RunSteps(m, SetConfigSteps(Head(cs))), Tail(cs))

PriorMems == {Configured(ResetMem, cs) : cs \in PriorConfigs}

Init ==
    /\ \E m \in PriorMems : EXTI = m.EXTI /\ EXTICR = m.EXTICR
    /\ handles = [h \in Handles |-> [Line |-> 0, PendingCallback |-> NULL]]
    /\ last = NoCall
    /\ irq = IrqIdle
    /\ task = TaskIdle

\* A handle is associated with one line for its lifetime.
BoundOnce(hexti, line) == IF hexti = NULL THEN TRUE ELSE handles[hexti].Line \in {0, line}
Bound(hexti) == IF hexti = NULL THEN FALSE ELSE handles[hexti].Line # 0

Commit(op, hexti, arg, r) ==
    /\ EXTI' = r.mem.EXTI
    /\ EXTICR' = r.mem.EXTICR
    /\ handles' = r.handles
    /\ last' = Call(op, hexti, arg, r)

HAL_EXTI_GetHandle ==
    \E hexti \in Handles \cup {NULL}, line \in Lines :
        /\ irq.pc = 0
        /\ BoundOnce(hexti, line)
        /\ Commit("GetHandle", hexti, << line >>, GetHandle(Mem, handles, hexti, line))
        /\ UNCHANGED << irq, task >>

HAL_EXTI_SetConfigLine ==
    \E hexti \in Handles \cup {NULL} :
        \E p \in (IF hexti = NULL THEN {Ptr(StaleConfig)} ELSE {Ptr(c) : c \in Configs}) \cup {NullCfg} :
            /\ IF p = NullCfg THEN TRUE ELSE BoundOnce(hexti, p[1].Line)
            /\ Commit("SetConfigLine", hexti, p, SetConfigLine(Mem, handles, hexti, p))
            /\ UNCHANGED << irq, task >>

HAL_EXTI_GetConfigLine ==
    \E hexti \in Handles \cup {NULL}, p \in {NullCfg, Ptr(StaleConfig)} :
        /\ IF hexti = NULL \/ p = NullCfg THEN TRUE ELSE Bound(hexti)
        /\ Commit("GetConfigLine", hexti, p, GetConfigLine(Mem, handles, hexti, p))
        /\ UNCHANGED << irq, task >>

HAL_EXTI_ClearConfigLine ==
    \E hexti \in Handles \cup {NULL} :
        /\ IF hexti = NULL THEN TRUE ELSE Bound(hexti)
        /\ Commit("ClearConfigLine", hexti, << >>, ClearConfigLine(Mem, handles, hexti))
        /\ UNCHANGED << irq, task >>

Next ==
    \/ HAL_EXTI_GetHandle
    \/ HAL_EXTI_SetConfigLine
    \/ HAL_EXTI_GetConfigLine
    \/ HAL_EXTI_ClearConfigLine

Spec == Init /\ [][Next]_vars


\* ------------------------------------------- dispatch, pending, callbacks
\* The API is called from the main context or from the running callback.
CallContext == irq.pc = 0 \/ irq.incb
\* The line the handler is dispatching, or was last.
IrqLine == handles[irq.hexti].Line
OnIrqLine(line) == IF irq.hexti = NULL THEN FALSE ELSE irq.taken /\ line = IrqLine

HAL_EXTI_RegisterCallback ==
    \E hexti \in Handles, id \in CallbackIDs, fn \in Callbacks \cup {NULL} :
        /\ irq.pc = 0
        /\ Commit("RegisterCallback", hexti, << id, fn >>,
                  RegisterCallback(Mem, handles, hexti, id, fn))
        /\ UNCHANGED << irq, task >>

\* The hardware latches the pending flag of a configurable line on an edge its
\* trigger selection enables.
Edge ==
    \E line \in Lines :
        /\ IsConfigLine(line)
        /\ MaskLine(line) \subseteq (Load(Mem, RTSR(line)) \cup Load(Mem, FTSR(line)))
        /\ EXTI' = [EXTI EXCEPT ![PR(line)[2]] = @ \cup MaskLine(line)]
        /\ irq' = IF OnIrqLine(line) THEN [irq EXCEPT !.fresh = TRUE] ELSE irq
        /\ UNCHANGED << EXTICR, handles, last, task >>

HAL_EXTI_GetPending ==
    \E hexti \in Handles :
        /\ CallContext /\ Bound(hexti) /\ IsConfigLine(handles[hexti].Line)
        /\ Commit("GetPending", hexti, << >>, GetPending(Mem, handles, hexti))
        /\ UNCHANGED << irq, task >>

HAL_EXTI_ClearPending ==
    \E hexti \in Handles :
        /\ CallContext /\ Bound(hexti) /\ IsConfigLine(handles[hexti].Line)
        /\ Commit("ClearPending", hexti, << >>, ClearPending(Mem, handles, hexti))
        /\ irq' = IF OnIrqLine(handles[hexti].Line) THEN [irq EXCEPT !.fresh = FALSE] ELSE irq
        /\ UNCHANGED task

HAL_EXTI_GenerateSWI ==
    \E hexti \in Handles :
        /\ CallContext /\ Bound(hexti) /\ IsConfigLine(handles[hexti].Line)
        /\ Commit("GenerateSWI", hexti, << >>, GenerateSWI(Mem, handles, hexti))
        /\ irq' = IF OnIrqLine(handles[hexti].Line) THEN [irq EXCEPT !.fresh = TRUE] ELSE irq
        /\ UNCHANGED task

\* HAL_EXTI_IRQHandler up to its test of the pending bit.
IRQ_Entry ==
    \E hexti \in Handles :
        /\ irq.pc = 0 /\ Bound(hexti)
        /\ LET taken == IRQPending(Mem, handles[hexti].Line) # {}
           IN /\ irq' = [IrqIdle EXCEPT !.hexti = hexti, !.taken = taken,
                                        !.pc = IF taken THEN 1 ELSE 0]
              /\ last' = Call("IRQHandler", hexti, << taken >>,
                              Result(HAL_OK, Mem, handles, NullCfg, {}))
        /\ UNCHANGED << EXTI, EXTICR, handles, task >>

InBody(stmt) ==
    /\ irq.pc \in DOMAIN IRQHandlerBody
    /\ ~irq.incb
    /\ IRQHandlerBody[irq.pc] = stmt

\* "*regaddr = maskline;"
IRQ_ClearPending ==
    /\ InBody("ClearPending")
    /\ LET m == Store(Mem, PR(IrqLine), MaskLine(IrqLine))
       IN EXTI' = m.EXTI /\ EXTICR' = m.EXTICR
    /\ irq' = [irq EXCEPT !.pc = @ + 1, !.cleared = TRUE, !.fresh = FALSE]
    /\ UNCHANGED << handles, last, task >>

\* "if (hexti->PendingCallback != NULL) hexti->PendingCallback();"
IRQ_CallCallback ==
    /\ InBody("CallCallback")
    /\ irq' = IF handles[irq.hexti].PendingCallback # NULL
              THEN [irq EXCEPT !.incb = TRUE, !.calls = @ + 1,
                               !.ran = handles[irq.hexti].PendingCallback]
              ELSE [irq EXCEPT !.pc = @ + 1]
    /\ UNCHANGED << EXTI, EXTICR, handles, last, task >>

IRQ_CallbackReturn ==
    /\ irq.incb
    /\ irq' = [irq EXCEPT !.incb = FALSE, !.pc = @ + 1]
    /\ UNCHANGED << EXTI, EXTICR, handles, last, task >>

IRQ_Return ==
    /\ irq.pc = Len(IRQHandlerBody) + 1
    /\ irq' = [irq EXCEPT !.pc = 0]
    /\ UNCHANGED << EXTI, EXTICR, handles, last, task >>

NextIrq ==
    \/ HAL_EXTI_GetHandle
    \/ HAL_EXTI_RegisterCallback
    \/ Edge
    \/ HAL_EXTI_GetPending
    \/ HAL_EXTI_ClearPending
    \/ HAL_EXTI_GenerateSWI
    \/ IRQ_Entry
    \/ IRQ_ClearPending
    \/ IRQ_CallCallback
    \/ IRQ_CallbackReturn
    \/ IRQ_Return

SpecIrq == Init /\ [][NextIrq]_vars


\* ------------------------------- configuration calls run store by store
\* The calls of this part: a descriptor to set, or a line to clear.
ConcConfigs == {Config(l, m, t, g) : l \in Lines, m \in {EXTI_MODE_NONE, EXTI_MODE_INTERRUPT},
                                     t \in {EXTI_TRIGGER_NONE, EXTI_TRIGGER_RISING_FALLING},
                                     g \in {2}}
ConcCalls == {[op |-> "SetConfigLine", c |-> c] : c \in ConcConfigs}
             \cup {[op |-> "ClearConfigLine", c |-> Config(l, EXTI_MODE_NONE, EXTI_TRIGGER_NONE, 0)] : l \in Lines}
\* Mutant: a clear that returns before its stores.
StepsOfCall_ClearSkipped(k) == IF k.op = "SetConfigLine" THEN SetConfigStepsOf[k.c] ELSE << >>
\* The stores of a call, in program order.
StepsOfCall(k) == IF k.op = "SetConfigLine" THEN SetConfigStepsOf[k.c] ELSE ClearConfigStepsOf[k.c.Line]
\* What the line reads back once the call has completed undisturbed.
Expected(k) ==
    IF k.op = "SetConfigLine"
    THEN Config(k.c.Line, k.c.Mode,
                IF IsConfigLine(k.c.Line) THEN k.c.Trigger ELSE EXTI_TRIGGER_NONE,
                IF IsGpioLine(k.c.Line) THEN k.c.GPIOSel ELSE 0)
    ELSE k.c

\* The main context enters HAL_EXTI_SetConfigLine or HAL_EXTI_ClearConfigLine.
\* Set assigns "hexti->Line = pExtiConfig->Line"; Clear takes a const handle,
\* reads the line from it and is called on a handle that has one.
Task_Begin ==
    \E k \in ConcCalls :
        /\ task.pc = 0
        /\ IF k.op = "SetConfigLine" THEN BoundOnce(1, k.c.Line) ELSE handles[1].Line = k.c.Line
        /\ handles' = IF k.op = "SetConfigLine" THEN [handles EXCEPT ![1].Line = k.c.Line]
                                                ELSE handles
        /\ task' = [task EXCEPT !.pc = 1, !.steps = StepsOfCall(k), !.loaded = FALSE,
                                !.want[k.c.Line] = Ptr(Expected(k))]
        /\ UNCHANGED << EXTI, EXTICR, last, irq >>

\* "regval = *regaddr;"
Task_Load ==
    /\ task.pc \in DOMAIN task.steps
    /\ ~task.loaded
    /\ task' = [task EXCEPT !.loaded = TRUE, !.regval = Load(Mem, task.steps[task.pc].reg)]
    /\ UNCHANGED << EXTI, EXTICR, handles, last, irq >>

\* "*regaddr = regval;" after the mask-or-set of regval.
Task_Store ==
    /\ task.pc \in DOMAIN task.steps
    /\ task.loaded
    /\ LET st == task.steps[task.pc]
           m == Store(Mem, st.reg, NewVal(task.regval, st))
       IN EXTI' = m.EXTI /\ EXTICR' = m.EXTICR
    /\ task' = [task EXCEPT !.pc = @ + 1, !.loaded = FALSE, !.regval = {}]
    /\ UNCHANGED << handles, last, irq >>

Task_Return ==
    /\ task.pc = Len(task.steps) + 1
    /\ task' = [task EXCEPT !.pc = 0, !.steps = << >>]
    /\ UNCHANGED << EXTI, EXTICR, handles, last, irq >>

\* An interrupt whose callback configures a line, run to completion; inside a
\* call of the main context it configures another line than that call.
Isr_Config ==
    \E k \in ConcCalls :
        /\ task.preempts < MaxPreempt
        /\ (task.pc # 0) => k.c.Line # handles[1].Line
        /\ LET steps == StepsOfCall(k)
               m == RunSteps(Mem, steps)
               tears == IF task.loaded THEN task.steps[task.pc].reg \in StepRegs(steps) ELSE FALSE
           IN /\ EXTI' = m.EXTI /\ EXTICR' = m.EXTICR
              /\ task' = [task EXCEPT !.preempts = @ + 1, !.torn = @ \/ tears,
                                      !.want[k.c.Line] = Ptr(Expected(k))]
        /\ UNCHANGED << handles, last, irq >>

NextConc ==
    \/ Task_Begin
    \/ Task_Load
    \/ Task_Store
    \/ Task_Return
    \/ Isr_Config

SpecConc == Init /\ [][NextConc]_vars

\* ------------------------------------------------------------------ claims
\* The line of the handle the last call was made on.
LastLine == handles[last.hexti].Line
\* The last call was a successful op.
Did(op) == last.op = op /\ last.hexti # NULL /\ last.ret = HAL_OK
\* What HAL_EXTI_GetConfigLine returns now on the handle of the last call.
GetNow == GetConfigLine(Mem, handles, last.hexti, Ptr(StaleConfig))
\* The selector fits the 4-bit port-selector field.
FitsSel(g) == g <= SBS_EXTICR1_PC_EXTI0

\* C1: on a configurable line, HAL_EXTI_SetConfigLine followed immediately by
\* HAL_EXTI_GetConfigLine on the same handle returns HAL_OK and the Line, Mode,
\* Trigger and GPIOSel that were set (GPIOSel 0 on a line that is not
\* GPIO-sourced), for every selector that fits the field and whatever the
\* registers held before.
C1_RoundTrip ==
    (last.op = "SetConfigLine" /\ last.hexti # NULL /\ last.arg # NullCfg) =>
        /\ last.ret = HAL_OK
        /\ LET c == last.arg[1]
           IN (IsConfigLine(c.Line) /\ FitsSel(c.GPIOSel)) =>
                 /\ GetNow.ret = HAL_OK
                 /\ GetNow.cfg = Ptr(Config(c.Line, c.Mode, c.Trigger,
                                            IF IsGpioLine(c.Line) THEN c.GPIOSel ELSE 0))

\* A GPIO line set to event mode, falling trigger and port C over registers
\* that held every line fully enabled on port P.
C1_Witness ==
    /\ Did("SetConfigLine")
    /\ last.arg = Ptr(Config(EXTI_LINE_1, EXTI_MODE_EVENT, EXTI_TRIGGER_FALLING, 2))
    /\ Load(Mem, EXTICRof(EXTI_LINE_0)) = W(15) \cup Shl(W(2), 4)
    /\ EXTI_LINE_0 \in {x \in Lines : MaskLine(x) \subseteq Load(Mem, RTSR(x))}

\* The configuration read back for every line but the one the last call was on.
Siblings(l) == Lines \ {l}
SiblingsKept ==
    \A b \in Siblings(LastLine') : ReadConfig(Mem', b) = ReadConfig(Mem, b)
ConfigCall == last' # last /\ last'.hexti # NULL /\ last'.ret = HAL_OK
              /\ last'.op \in {"SetConfigLine", "ClearConfigLine"}

\* C2 as stated: a HAL_EXTI_SetConfigLine or HAL_EXTI_ClearConfigLine on line A,
\* with every descriptor, leaves the configuration read back for every other
\* line B unchanged.
C2_AnyDescriptor == [][ConfigCall => SiblingsKept]_vars

\* C2 amended: the same for every descriptor whose GPIOSel fits the 4-bit
\* port-selector field of a GPIO-sourced line A.
C2_SiblingIsolation ==
    [][(ConfigCall /\ (last'.op = "SetConfigLine" =>
                          (IsGpioLine(last'.arg[1].Line) => FitsSel(last'.arg[1].GPIOSel))))
        => SiblingsKept]_vars

\* Line 0 reconfigured while line 1, packed in the same selector word and the
\* same mode and trigger registers, is fully enabled on port P.
C2_Witness ==
    /\ Did("SetConfigLine")
    /\ last.arg = Ptr(Config(EXTI_LINE_0, EXTI_MODE_NONE, EXTI_TRIGGER_NONE, 2))
    /\ ReadConfig(Mem, EXTI_LINE_1) = FullOn(EXTI_LINE_1)

\* C3: after HAL_EXTI_ClearConfigLine on a handle, HAL_EXTI_GetConfigLine on it
\* reports Mode none, Trigger none and GPIOSel 0, on every line and whatever
\* the registers held before.
C3_ClearResets ==
    (last.op = "ClearConfigLine" /\ last.hexti # NULL) =>
        /\ last.ret = HAL_OK
        /\ GetNow.ret = HAL_OK
        /\ GetNow.cfg = Ptr(Config(LastLine, EXTI_MODE_NONE, EXTI_TRIGGER_NONE, 0))

\* A GPIO line cleared over registers in which its sibling is still fully
\* enabled, so the line itself was fully enabled before the call.
C3_Witness ==
    /\ Did("ClearConfigLine")
    /\ LastLine = EXTI_LINE_0
    /\ ReadConfig(Mem, EXTI_LINE_1) = FullOn(EXTI_LINE_1)
    /\ ReadConfig(Mem, EXTI_LINE_16).Trigger = EXTI_TRIGGER_RISING_FALLING

\* A call with an absent handle or an absent descriptor.
AbsentRef(c) == \/ c.op \in {"SetConfigLine", "GetConfigLine"} /\ (c.hexti = NULL \/ c.arg = NullCfg)
                \/ c.op = "ClearConfigLine" /\ c.hexti = NULL

\* C7: HAL_EXTI_SetConfigLine and HAL_EXTI_GetConfigLine with an absent handle
\* or descriptor, and HAL_EXTI_ClearConfigLine with an absent handle, return
\* HAL_ERROR and leave every register, the handle and the descriptor as they were.
C7_AbsentRejected ==
    [][(last' # last /\ AbsentRef(last')) =>
          /\ last'.ret = HAL_ERROR
          /\ last'.written = {}
          /\ last'.out = last'.arg
          /\ UNCHANGED << EXTI, EXTICR, handles >>]_vars

\* HAL_EXTI_GetConfigLine refused for an absent descriptor on a bound handle,
\* over configured registers.
C7_Witness ==
    /\ last.op = "GetConfigLine" /\ last.hexti # NULL /\ last.arg = NullCfg
    /\ last.ret = HAL_ERROR
    /\ LastLine = EXTI_LINE_0
    /\ ReadConfig(Mem, EXTI_LINE_0) = FullOn(EXTI_LINE_0)

PendingRegs == {ExtiReg(PR1 + EXTI_MODE_OFFSET * k) : k \in Banks}
SoftTrigRegs == {ExtiReg(SWIER1 + EXTI_CONFIG_OFFSET * k) : k \in Banks}
TriggerSelRegs == {ExtiReg(RTSR1 + EXTI_CONFIG_OFFSET * k) : k \in Banks}
                  \cup {ExtiReg(FTSR1 + EXTI_CONFIG_OFFSET * k) : k \in Banks}
                  \cup {ExticrReg(i) : i \in ExticrIdx}

\* C9: on a line that is not configurable, HAL_EXTI_SetConfigLine (whatever
\* Trigger and GPIOSel) and HAL_EXTI_ClearConfigLine store only to the
\* interrupt-mask and event-mask registers and leave every bit of the trigger
\* and port-selector registers; no configuration call on any line stores to a
\* pending or software-trigger register; HAL_EXTI_GetConfigLine reports Trigger
\* none and GPIOSel 0 for such a line.
C9_NonConfigurable ==
    /\ [][ConfigCall =>
            /\ last'.written \cap (PendingRegs \cup SoftTrigRegs) = {}
            /\ \A r \in PendingRegs \cup SoftTrigRegs : Load(Mem', r) = Load(Mem, r)
            /\ ~IsConfigLine(LastLine') =>
                  /\ last'.written \subseteq {IMR(LastLine'), EMR(LastLine')}
                  /\ \A r \in TriggerSelRegs : Load(Mem', r) = Load(Mem, r)]_vars
    /\ [](Did("GetConfigLine") /\ last.arg # NullCfg /\ ~IsConfigLine(LastLine) =>
            last.out[1].Trigger = EXTI_TRIGGER_NONE /\ last.out[1].GPIOSel = 0)

\* The direct line set with both triggers and a port requested, over registers
\* whose trigger and selector bits are set for the other lines.
C9_Witness ==
    /\ Did("SetConfigLine")
    /\ last.arg = Ptr(Config(EXTI_LINE_33, EXTI_MODE_INTERRUPT, EXTI_TRIGGER_RISING_FALLING, 2))
    /\ ReadConfig(Mem, EXTI_LINE_0) = FullOn(EXTI_LINE_0)

\* The pending register of the bank of the handler's line.
IrqPR == Load(Mem, PR(IrqLine))
\* The handler's line has its pending flag set.
IrqBitSet == MaskLine(IrqLine) \subseteq IrqPR
Dispatching == irq.hexti # NULL /\ irq.taken

\* C4: a dispatch that finds the pending bit set writes the line's mask to the
\* pending register, clearing that bit and no other, before the callback
\* starts; it invokes the registered callback once, and clears the bit also
\* when none is registered; afterwards HAL_EXTI_GetPending returns 0 unless the
\* flag was latched again after the clear, and then the bit is still set when
\* the dispatch returns.
C4_ClearThenCall ==
    /\ [](irq.incb => irq.cleared)
    /\ []((Dispatching /\ irq.cleared) =>
             /\ IrqBitSet <=> irq.fresh
             /\ GetPendingValue(Mem, IrqLine) = (IF irq.fresh THEN 1 ELSE 0))
    /\ [][(irq.cleared' /\ ~irq.cleared /\ irq.pc # 0) =>
             /\ IrqBitSet
             /\ IrqPR' = IrqPR \ MaskLine(IrqLine)]_vars
    /\ [][(irq.pc # 0 /\ irq.pc' = 0) =>
             /\ irq.cleared'
             /\ irq.calls' = (IF handles[irq.hexti].PendingCallback # NULL THEN 1 ELSE 0)
             /\ irq.ran' = handles[irq.hexti].PendingCallback]_vars

\* A dispatch has returned after its callback re-triggered the line: the flag
\* is pending again, next to another line's pending flag.
C4_Witness ==
    /\ Dispatching /\ irq.pc = 0 /\ irq.calls = 1 /\ irq.fresh
    /\ IrqLine = EXTI_LINE_0
    /\ last.op = "GenerateSWI"
    /\ IrqPR = MaskLine(EXTI_LINE_0) \cup MaskLine(EXTI_LINE_1)

\* The line's flag is set in its bank's pending register.
BitPending(line) == MaskLine(line) \subseteq Load(Mem, PR(line))
\* HAL_EXTI_IRQHandler was entered in this step.
Entered == irq.pc = 0 /\ last' # last /\ last'.op = "IRQHandler"

\* C5: a dispatch on a line whose pending bit is not set invokes no callback,
\* writes no register (the pending bits of the other lines stay as they are)
\* and leaves the handle unchanged.
C5_DispatchNoOp ==
    [][(Entered /\ ~BitPending(handles[last'.hexti].Line)) =>
          /\ irq.pc' = 0 /\ ~irq.incb' /\ irq.calls' = 0 /\ irq.ran' = NULL
          /\ last'.written = {}
          /\ UNCHANGED << EXTI, EXTICR, handles >>]_vars

\* The handler returned at once for line 0, with a callback registered, while
\* line 1 of the same bank is pending.
C5_Witness ==
    /\ last.op = "IRQHandler" /\ last.arg = << FALSE >>
    /\ irq.pc = 0
    /\ LastLine = EXTI_LINE_0
    /\ handles[last.hexti].PendingCallback # NULL
    /\ Load(Mem, PR(EXTI_LINE_0)) = MaskLine(EXTI_LINE_1)

\* C6: HAL_EXTI_RegisterCallback with a role other than the common one returns
\* HAL_ERROR and leaves the handle; with the common role it returns HAL_OK and
\* the handle holds the reference just registered, so the dispatch invokes the
\* callback registered last and no other.
C6_RegisterCallback ==
    /\ [][(last' # last /\ last'.op = "RegisterCallback") =>
            IF last'.arg[1] = HAL_EXTI_COMMON_CB_ID
            THEN /\ last'.ret = HAL_OK
                 /\ handles' = [handles EXCEPT ![last'.hexti].PendingCallback = last'.arg[2]]
            ELSE /\ last'.ret = HAL_ERROR
                 /\ handles' = handles]_vars
    /\ [][(irq.incb' /\ ~irq.incb) =>
            /\ irq.ran' = handles[irq.hexti].PendingCallback
            /\ irq.calls' = 1]_vars
    /\ [][(last'.op # "RegisterCallback" /\ last'.op # "GetHandle") => handles' = handles]_vars

\* An unknown role refused while another callback is stored.
C6_Witness ==
    /\ last.op = "RegisterCallback" /\ last.arg = << 1, 2 >> /\ last.ret = HAL_ERROR
    /\ handles[last.hexti].PendingCallback = 1
    /\ LastLine = EXTI_LINE_0

PendingCall(op) == last' # last /\ last'.op = op
PRofLast(m) == Load(m, PR(handles[last'.hexti].Line))
MaskOfLast == MaskLine(handles[last'.hexti].Line)

\* C8: on a configurable line, HAL_EXTI_GenerateSWI stores to the bank's
\* software-trigger register only and latches that line's pending flag alone,
\* so HAL_EXTI_GetPending then returns 1; HAL_EXTI_GetPending returns 0 or 1
\* and stores nothing; HAL_EXTI_ClearPending makes it return 0 and leaves the
\* pending bits of the other lines.
C8_SoftwareTrigger ==
    /\ [][PendingCall("GenerateSWI") =>
            /\ last'.written = {SWIER(handles[last'.hexti].Line)}
            /\ GetPending(Mem', handles', last'.hexti).ret = 1
            /\ PRofLast(Mem') = PRofLast(Mem) \cup MaskOfLast
            /\ UNCHANGED EXTICR]_vars
    /\ [][PendingCall("GetPending") =>
            /\ last'.ret \in {0, 1}
            /\ last'.ret = 1 <=> MaskOfLast \subseteq PRofLast(Mem)
            /\ last'.written = {}
            /\ UNCHANGED << EXTI, EXTICR, handles >>]_vars
    /\ [][PendingCall("ClearPending") =>
            /\ GetPending(Mem', handles', last'.hexti).ret = 0
            /\ PRofLast(Mem') = PRofLast(Mem) \ MaskOfLast]_vars

\* Line 1 software-triggered while line 0 of the same bank was pending.
C8_Witness ==
    /\ last.op = "GenerateSWI"
    /\ LastLine = EXTI_LINE_1
    /\ irq.pc = 0
    /\ Load(Mem, PR(EXTI_LINE_1)) = MaskLine(EXTI_LINE_0) \cup MaskLine(EXTI_LINE_1)

\* Every line reads back the descriptor of the last call made on it.
Consistent == \A l \in Lines : task.want[l] # NullCfg => ReadConfig(Mem, l) = task.want[l][1]

\* C10: the calls take no lock and load and store a shared register in two
\* steps, so an interrupt that configures another line between the load and
\* the store of a register both lines share can leave that line with its old
\* bits, a state no serial order of the two calls produces; without such an
\* interleaving every line reads back the last descriptor set on it.
C10_SerializedSafe == (task.pc = 0 /\ ~task.torn) => Consistent

\* A lost update: the interrupt set line 1 inside a call on line 0, both calls
\* have completed, line 0 reads back what was set and line 1 does not.
C10_Witness ==
    /\ task.pc = 0 /\ task.torn
    /\ handles[1].Line = EXTI_LINE_0
    /\ task.want[EXTI_LINE_1] # NullCfg
    /\ ReadConfig(Mem, EXTI_LINE_0) = task.want[EXTI_LINE_0][1]
    /\ ReadConfig(Mem, EXTI_LINE_1) # task.want[EXTI_LINE_1][1]

====
